---- MODULE Spec2Model ----
(***************************************************************************)
(* A model of the cats registry command-line tool (pie-flavor/cats).       *)
(*                                                                         *)
(* One process invocation opens cat_registry.db, runs the create-table     *)
(* migration, parses the command line, runs exactly one command (add,      *)
(* delete, find, get, update) and prints the result.  The table persists   *)
(* between invocations.                                                    *)
(*                                                                         *)
(* Text is a sequence of one-character strings.  Query text is a sequence  *)
(* of the string literals the code concatenates, so a '?' placeholder is   *)
(* always inside a literal of the code and a user value can only appear in *)
(* the text as a piece of its own.  Option<T> is <<>> (None) or <<x>>      *)
(* (Some(x)).  A bound parameter is [col, t, v]: t and v are the SQL type  *)
(* and value handed to the engine; col records which field of the command  *)
(* the value was taken from and is never read by the engine.               *)
(***************************************************************************)
EXTENDS Naturals, Sequences, FiniteSets

VARIABLES
    cats,       \* rows of table cats in cat_registry.db (persists across runs)
    schema,     \* TRUE once the table has been created in the database file
    issued,     \* history: ids ever returned by add
    pc,         \* position of the running process in main_
    log,        \* storage-engine calls and failures of this invocation, in order
    cmd,        \* the parsed command of this invocation
    stmt,       \* query text of the last statement built
    params,     \* parameter list of the last statement built
    result,     \* the Printable result of the command
    mode,       \* how the result was printed: "json", "display" or "plain"
    stdout,     \* what the invocation printed
    exitCode    \* process exit status; NoExit while running

vars == <<cats, schema, issued, pc, log, cmd, stmt, params, result, mode, stdout, exitCode>>

----------------------------------------------------------------------------
(* Bounds of the model.                                                    *)

\* the largest rowid the table is let to reach
MaxId == 2
\* filter values (name patterns, age terms, breed patterns, ids) on one command line
MaxTerms == 2

----------------------------------------------------------------------------
(* Sequences, options, text.                                               *)

None == <<>>
Some(x) == <<x>>
IsSome(o) == o # <<>>
Unwrap(o) == o[1]

SeqsUpTo(S, n) == UNION {[1..k -> S] : k \in 0..n}
NonEmptySeqsUpTo(S, n) == UNION {[1..k -> S] : k \in 1..n}
Opt(S) == {None} \cup {Some(x) : x \in S}

Elems(s) == {s[i] : i \in 1..Len(s)}

\* itertools::join on single-piece items
RECURSIVE Join(_, _)
Join(items, sep) ==
    IF items = <<>> THEN <<>>
    ELSE IF Len(items) = 1 THEN <<items[1]>>
    ELSE <<items[1], sep>> \o Join(Tail(items), sep)

\* itertools::join on items that are themselves pieces of text
RECURSIVE JoinAll(_, _)
JoinAll(items, sep) ==
    IF items = <<>> THEN <<>>
    ELSE IF Len(items) = 1 THEN items[1]
    ELSE items[1] \o <<sep>> \o JoinAll(Tail(items), sep)

\* iter::repeat(x).take(n)
Repeat(x, n) == [i \in 1..n |-> x]

\* [a, b, c].iter().flatten() over options
RECURSIVE Flatten(_)
Flatten(opts) ==
    IF opts = <<>> THEN <<>>
    ELSE (IF IsSome(opts[1]) THEN <<Unwrap(opts[1])>> ELSE <<>>) \o Flatten(Tail(opts))

Digits == <<"0", "1", "2", "3", "4", "5", "6", "7", "8", "9">>
IsDigit(c) == c \in Elems(Digits)
DigitVal(c) == (CHOOSE i \in 1..10 : Digits[i] = c) - 1

\* str::parse::<u32>: an optional '+', then one or more digits.  A u32 overflows
\* only from ten digits on; every text of this model is shorter, and up to nine
\* digits always fit.
RECURSIVE DecVal(_)
DecVal(s) == IF s = <<>> THEN 0 ELSE DecVal(SubSeq(s, 1, Len(s) - 1)) * 10 + DigitVal(s[Len(s)])

ParseU32(s) ==
    LET d == IF s # <<>> /\ s[1] = "+" THEN Tail(s) ELSE s
    IN IF d # <<>> /\ Len(d) <= 9 /\ (\A i \in 1..Len(d) : IsDigit(d[i]))
       THEN Some(DecVal(d))
       ELSE None

\* integer to decimal text (SQLite's cast of an integer operand of LIKE)
RECURSIVE IntToText(_)
IntToText(n) == IF n < 10 THEN <<Digits[n + 1]>> ELSE IntToText(n \div 10) \o <<Digits[(n % 10) + 1]>>

----------------------------------------------------------------------------
(* args.rs: the command line.                                              *)

Concrete(n) == [tag |-> "Concrete", start |-> n, end |-> n]
AgeRange(lo, hi) == [tag |-> "Range", start |-> lo, end |-> hi]

\* str::find("-"): index of the first '-', or 0
FindDash(s) ==
    IF \E i \in 1..Len(s) : s[i] = "-"
    THEN CHOOSE i \in 1..Len(s) : s[i] = "-" /\ \A j \in 1..(i - 1) : s[j] # "-"
    ELSE 0

\* <Age as FromStr>::from_str; None is the Err result
AgeFromStr(s) ==
    LET divider == FindDash(s) IN
    IF divider # 0
    THEN LET lower == ParseU32(SubSeq(s, 1, divider - 1))
             upper == ParseU32(SubSeq(s, divider + 1, Len(s)))
         IN IF lower = None \/ upper = None THEN None
            ELSE Some(AgeRange(Unwrap(lower), Unwrap(upper)))
    ELSE LET age == ParseU32(s)
         IN IF age = None THEN None ELSE Some(Concrete(Unwrap(age)))

----------------------------------------------------------------------------
(* cmds.rs: query construction.                                            *)

TextParam(col, s) == [col |-> col, t |-> "text", v |-> s]
IntParam(col, n) == [col |-> col, t |-> "int", v |-> n]
NullParam(col) == [col |-> col, t |-> "null", v |-> <<>>]
OptTextParam(col, o) == IF IsSome(o) THEN TextParam(col, Unwrap(o)) ELSE NullParam(col)

\* format!("%{}%", name)
Wildcard(s) == <<"%">> \o s \o <<"%">>

\* TextClause with the fault of writing the patterns into the text
TextClauseInlined(col, pats, fuzzy) ==
    IF fuzzy
    THEN <<col \o " IN VALUES (">> \o Join(Repeat("?", Len(pats)), ", ") \o <<")">>
    ELSE <<"(">>
         \o JoinAll([i \in 1..Len(pats) |-> <<col \o " LIKE '%">> \o pats[i] \o <<"%'">>], " OR ")
         \o <<")">>

\* the name and breed closures of find: the clause text
TextClause(col, pats, fuzzy) ==
    IF fuzzy
    THEN <<col \o " IN VALUES (">> \o Join(Repeat("?", Len(pats)), ", ") \o <<")">>
    ELSE <<"(">> \o Join(Repeat(col \o " LIKE ?", Len(pats)), " OR ") \o <<")">>

\* the name and breed closures of find: what they append to params_owned
TextClauseParams(col, pats, fuzzy) ==
    [i \in 1..Len(pats) |-> TextParam(col, IF fuzzy THEN pats[i] ELSE Wildcard(pats[i]))]

AgePiece(age) == IF age.tag = "Concrete" THEN "age = ?" ELSE "age BETWEEN ? AND ?"

AgeClause(ages) ==
    <<"(">> \o Join([i \in 1..Len(ages) |-> AgePiece(ages[i])], " OR ") \o <<")">>

\* AgeClauseParams with the fault of pushing a range's end before its start
RECURSIVE AgeClauseParamsEndFirst(_)
AgeClauseParamsEndFirst(ages) ==
    IF ages = <<>> THEN <<>>
    ELSE (IF ages[1].tag = "Concrete"
          THEN <<IntParam("age", ages[1].start)>>
          ELSE <<IntParam("age", ages[1].end), IntParam("age", ages[1].start)>>)
         \o AgeClauseParamsEndFirst(Tail(ages))

\* the age closure of find: what it pushes to params
RECURSIVE AgeClauseParams(_)
AgeClauseParams(ages) ==
    IF ages = <<>> THEN <<>>
    ELSE (IF ages[1].tag = "Concrete"
          THEN <<IntParam("age", ages[1].start)>>
          ELSE <<IntParam("age", ages[1].start), IntParam("age", ages[1].end)>>)
         \o AgeClauseParams(Tail(ages))

MapOpt(o, piece) == IF IsSome(o) THEN Some(piece) ELSE None

FindText(c) ==
    LET name_clause == IF IsSome(c.name)
                       THEN Some(TextClause("name", Unwrap(c.name), c.fuzzy)) ELSE None
        breed_clause == IF IsSome(c.breed)
                        THEN Some(TextClause("breed", Unwrap(c.breed), c.fuzzy)) ELSE None
        age_clause == IF IsSome(c.age) THEN Some(AgeClause(Unwrap(c.age))) ELSE None
        no_breed_clause == IF c.no_breed THEN Some(<<"breed ISNULL">>) ELSE None
        clauses == JoinAll(Flatten(<<name_clause, age_clause, breed_clause, no_breed_clause>>),
                           " AND ")
    IN IF clauses = <<>> THEN <<"SELECT * FROM cats">>
       ELSE <<"SELECT * FROM cats WHERE ">> \o clauses

FindParams(c) ==
    LET names == IF IsSome(c.name)
                 THEN TextClauseParams("name", Unwrap(c.name), c.fuzzy) ELSE <<>>
        breeds == IF IsSome(c.breed)
                  THEN TextClauseParams("breed", Unwrap(c.breed), c.fuzzy) ELSE <<>>
        params_owned == names \o breeds
        ages == IF IsSome(c.age) THEN AgeClauseParams(Unwrap(c.age)) ELSE <<>>
    IN params_owned \o ages

\* UpdateText with the fault of joining the breed assignment first, while the
\* parameters keep the order name, age, breed
UpdateTextBreedFirst(c) ==
    <<"UPDATE cats SET ">>
    \o Join(Flatten(<<MapOpt(c.breed, "breed = ?"), MapOpt(c.name, "name = ?"),
                      MapOpt(c.age, "age = ?")>>), ", ")
    \o <<" WHERE id = ? RETURNING *">>

UpdateText(c) ==
    <<"UPDATE cats SET ">>
    \o Join(Flatten(<<MapOpt(c.name, "name = ?"), MapOpt(c.age, "age = ?"),
                      MapOpt(c.breed, "breed = ?")>>), ", ")
    \o <<" WHERE id = ? RETURNING *">>

UpdateParams(c) ==
    (IF IsSome(c.name) THEN <<TextParam("name", Unwrap(c.name))>> ELSE <<>>)
    \o (IF IsSome(c.age) THEN <<IntParam("age", Unwrap(c.age))>> ELSE <<>>)
    \o (IF IsSome(c.breed) THEN <<TextParam("breed", Unwrap(c.breed))>> ELSE <<>>)
    \o <<IntParam("id", c.id)>>

GetText(c) == <<"SELECT * FROM cats WHERE ">> \o Join(Repeat("id = ?", Len(c.id)), " OR ")
GetParams(c) == [i \in 1..Len(c.id) |-> IntParam("id", c.id[i])]

AddText(c) == <<"INSERT INTO cats (name, age, breed) VALUES (?, ?, ?) RETURNING *">>
AddParams(c) == <<TextParam("name", c.name), IntParam("age", c.age), OptTextParam("breed", c.breed)>>

DeleteText(c) == <<"DELETE FROM cats WHERE id = ? RETURNING *">>
DeleteParams(c) == <<IntParam("id", c.id)>>

QueryText(c) ==
    CASE c.kind = "add" -> AddText(c)
      [] c.kind = "delete" -> DeleteText(c)
      [] c.kind = "find" -> FindText(c)
      [] c.kind = "get" -> GetText(c)
      [] c.kind = "update" -> UpdateText(c)

QueryParams(c) ==
    CASE c.kind = "add" -> AddParams(c)
      [] c.kind = "delete" -> DeleteParams(c)
      [] c.kind = "find" -> FindParams(c)
      [] c.kind = "get" -> GetParams(c)
      [] c.kind = "update" -> UpdateParams(c)

----------------------------------------------------------------------------
(* The storage engine (SQLite behind rusqlite), as far as the statements   *)
(* the code builds reach it.  It reads the query text piece by piece and   *)
(* binds the parameters by position.                                       *)

Lower(c) ==
    CASE c = "A" -> "a" [] c = "B" -> "b" [] c = "T" -> "t" [] OTHER -> c

\* SQLite's LIKE: '%' is any run of characters, '_' any one character, ASCII
\* letters compare without case
RECURSIVE Like(_, _)
Like(pat, s) ==
    IF pat = <<>> THEN s = <<>>
    ELSE IF Head(pat) = "%"
         THEN Like(Tail(pat), s) \/ (s # <<>> /\ Like(pat, Tail(s)))
         ELSE /\ s # <<>>
              /\ (Head(pat) = "_" \/ Lower(Head(pat)) = Lower(Head(s)))
              /\ Like(Tail(pat), Tail(s))

NullValue == NullParam("")

\* the k-th bound parameter; an unbound one is NULL
Bound(ps, k) == IF k <= Len(ps) THEN ps[k] ELSE NullValue

\* text LIKE ?  (an integer pattern is cast to text, NULL yields NULL)
LikeParam(p, text) ==
    CASE p.t = "text" -> Like(p.v, text)
      [] p.t = "int" -> Like(IntToText(p.v), text)
      [] OTHER -> FALSE

\* comparisons of an INTEGER column with a parameter: text that reads as a
\* number is converted, other text sorts after every integer, NULL yields NULL
IntEq(n, p) ==
    CASE p.t = "int" -> n = p.v
      [] p.t = "text" -> IsSome(ParseU32(p.v)) /\ n = Unwrap(ParseU32(p.v))
      [] OTHER -> FALSE

IntGe(n, p) ==
    CASE p.t = "int" -> n >= p.v
      [] p.t = "text" -> IsSome(ParseU32(p.v)) /\ n >= Unwrap(ParseU32(p.v))
      [] OTHER -> FALSE

IntLe(n, p) ==
    CASE p.t = "int" -> n <= p.v
      [] p.t = "text" -> IsSome(ParseU32(p.v)) => n <= Unwrap(ParseU32(p.v))
      [] OTHER -> FALSE

Predicates ==
    {"name LIKE ?", "breed LIKE ?", "age = ?", "age BETWEEN ? AND ?", "id = ?", "breed ISNULL"}

NumPlaceholders(piece) ==
    CASE piece \in {"?", "name LIKE ?", "breed LIKE ?", "age = ?", "id = ?",
                    "name = ?", "breed = ?", " WHERE id = ? RETURNING *",
                    "DELETE FROM cats WHERE id = ? RETURNING *"} -> 1
      [] piece = "age BETWEEN ? AND ?" -> 2
      [] piece = "INSERT INTO cats (name, age, breed) VALUES (?, ?, ?) RETURNING *" -> 3
      [] OTHER -> 0

\* the column each placeholder of a piece is compared with or assigned to; a
\* bare "?" belongs to the IN list it stands in
PieceColumns(piece, list) ==
    CASE piece \in {"name LIKE ?", "name = ?"} -> <<"name">>
      [] piece \in {"breed LIKE ?", "breed = ?"} -> <<"breed">>
      [] piece = "age = ?" -> <<"age">>
      [] piece = "age BETWEEN ? AND ?" -> <<"age", "age">>
      [] piece \in {"id = ?", " WHERE id = ? RETURNING *",
                    "DELETE FROM cats WHERE id = ? RETURNING *"} -> <<"id">>
      [] piece = "INSERT INTO cats (name, age, breed) VALUES (?, ?, ?) RETURNING *" ->
            <<"name", "age", "breed">>
      [] piece = "?" -> <<list>>
      [] OTHER -> <<>>

\* the columns of the placeholders of a query text, left to right
RECURSIVE PlaceholderColumns(_, _)
PlaceholderColumns(q, list) ==
    IF q = <<>> THEN <<>>
    ELSE PieceColumns(q[1], list)
         \o PlaceholderColumns(Tail(q),
                CASE q[1] = "name IN VALUES (" -> "name"
                  [] q[1] = "breed IN VALUES (" -> "breed"
                  [] OTHER -> list)

\* a predicate piece on a row, its placeholders bound from position k on
EvalPredicate(piece, ps, k, row) ==
    CASE piece = "name LIKE ?" -> LikeParam(Bound(ps, k), row.name)
      [] piece = "breed LIKE ?" -> IsSome(row.breed) /\ LikeParam(Bound(ps, k), Unwrap(row.breed))
      [] piece = "age = ?" -> IntEq(row.age, Bound(ps, k))
      [] piece = "age BETWEEN ? AND ?" ->
            IntGe(row.age, Bound(ps, k)) /\ IntLe(row.age, Bound(ps, k + 1))
      [] piece = "id = ?" -> IntEq(row.id, Bound(ps, k))
      [] piece = "breed ISNULL" -> row.breed = None

\* expr := conj (" OR " conj)* ; conj := atom (" AND " atom)* ;
\* atom := predicate | "(" expr ")", read left to right in one pass.
\* Parentheses nest one level, the deepest the code builds.  The reader's state:
\* ok (no syntax error so far), k (the next parameter to bind), want (an
\* operand must come next), open (inside a parenthesis), and for the top level
\* and the parenthesis the value of the disjuncts completed so far (or, por)
\* and of the conjunction being read (and, pand).  NULL counts as false, which
\* is the same for a WHERE clause without NOT.
ReadStart ==
    [ok |-> TRUE, k |-> 1, want |-> TRUE, open |-> FALSE,
     or |-> FALSE, and |-> TRUE, por |-> FALSE, pand |-> TRUE]

ReadOperand(st, val, n) ==
    IF st.open
    THEN [st EXCEPT !.want = FALSE, !.k = st.k + n, !.pand = st.pand /\ val]
    ELSE [st EXCEPT !.want = FALSE, !.k = st.k + n, !.and = st.and /\ val]

ReadPiece(st, piece, ps, row) ==
    IF ~st.ok THEN st
    ELSE IF piece \in Predicates
    THEN IF st.want
         THEN ReadOperand(st, EvalPredicate(piece, ps, st.k, row), NumPlaceholders(piece))
         ELSE [st EXCEPT !.ok = FALSE]
    ELSE IF piece = "("
    THEN IF st.want /\ ~st.open
         THEN [st EXCEPT !.open = TRUE, !.por = FALSE, !.pand = TRUE]
         ELSE [st EXCEPT !.ok = FALSE]
    ELSE IF piece = ")"
    THEN IF st.open /\ ~st.want
         THEN [st EXCEPT !.open = FALSE, !.and = st.and /\ (st.por \/ st.pand)]
         ELSE [st EXCEPT !.ok = FALSE]
    ELSE IF piece = " AND "
    THEN IF ~st.want THEN [st EXCEPT !.want = TRUE] ELSE [st EXCEPT !.ok = FALSE]
    ELSE IF piece = " OR "
    THEN IF st.want THEN [st EXCEPT !.ok = FALSE]
         ELSE IF st.open
              THEN [st EXCEPT !.want = TRUE, !.por = st.por \/ st.pand, !.pand = TRUE]
              ELSE [st EXCEPT !.want = TRUE, !.or = st.or \/ st.and, !.and = TRUE]
    ELSE [st EXCEPT !.ok = FALSE]

RECURSIVE ReadExpr(_, _, _, _, _)
ReadExpr(q, i, st, ps, row) ==
    IF i > Len(q) THEN st ELSE ReadExpr(q, i + 1, ReadPiece(st, q[i], ps, row), ps, row)

NoRow == [id |-> 0, name |-> <<>>, age |-> 0, breed |-> None]

\* a WHERE expression that parses to its end, with as many placeholders as
\* parameters
WhereOk(q, ps) ==
    LET st == ReadExpr(q, 1, ReadStart, ps, NoRow)
    IN st.ok /\ ~st.want /\ ~st.open /\ st.k = Len(ps) + 1

Matches(q, ps, row) ==
    LET st == ReadExpr(q, 1, ReadStart, ps, row) IN st.or \/ st.and

MinId(rows) == CHOOSE i \in {r.id : r \in rows} : \A r \in rows : i <= r.id
MaxRowid(rows) == CHOOSE i \in {r.id : r \in rows} : \A r \in rows : i >= r.id

\* rows in rowid order, the order a scan of the table returns them
RECURSIVE InRowidOrder(_)
InRowidOrder(rows) ==
    IF rows = {} THEN <<>>
    ELSE LET first == CHOOSE r \in rows : r.id = MinId(rows)
         IN <<first>> \o InRowidOrder(rows \ {first})

\* INTEGER PRIMARY KEY without AUTOINCREMENT: one more than the largest rowid
\* now in the table
NewRowid(rows) == IF rows = {} THEN 1 ELSE MaxRowid(rows) + 1

Failed(rows) == [ok |-> FALSE, returning |-> <<>>, table |-> rows]

ExecInsert(ps, rows) ==
    IF Len(ps) # 3 \/ ps[1].t # "text" \/ ps[2].t # "int" \/ ps[3].t = "int"
    THEN Failed(rows)
    ELSE LET row == [id |-> NewRowid(rows), name |-> ps[1].v, age |-> ps[2].v,
                     breed |-> IF ps[3].t = "text" THEN Some(ps[3].v) ELSE None]
         IN [ok |-> TRUE, returning |-> <<row>>, table |-> rows \cup {row}]

ExecDelete(ps, rows) ==
    IF Len(ps) # 1 THEN Failed(rows)
    ELSE LET hit == {r \in rows : IntEq(r.id, ps[1])}
         IN [ok |-> TRUE, returning |-> InRowidOrder(hit), table |-> rows \ hit]

ExecSelect(q, ps, rows) ==
    IF q = <<"SELECT * FROM cats">>
    THEN IF ps = <<>> THEN [ok |-> TRUE, returning |-> InRowidOrder(rows), table |-> rows]
         ELSE Failed(rows)
    ELSE IF WhereOk(Tail(q), ps)
         THEN [ok |-> TRUE, table |-> rows,
               returning |-> InRowidOrder({r \in rows : Matches(Tail(q), ps, r)})]
         ELSE Failed(rows)

Assignments == {"name = ?", "age = ?", "breed = ?"}

\* set-list := assignment (", " assignment)*
SetListOk(q) ==
    /\ Len(q) % 2 = 1
    /\ \A i \in 1..Len(q) : IF i % 2 = 1 THEN q[i] \in Assignments ELSE q[i] = ", "

\* the parameter of an assignment fits the column it is stored in
Storable(piece, p) ==
    CASE piece = "name = ?" -> p.t = "text"
      [] piece = "age = ?" -> p.t = "int"
      [] piece = "breed = ?" -> p.t \in {"text", "null"}

\* the row after the assignments at the odd positions from i on, the k-th
\* parameter bound to the first of them
RECURSIVE Assign(_, _, _, _, _)
Assign(q, i, k, ps, row) ==
    IF i > Len(q) THEN row
    ELSE Assign(q, i + 2, k + 1, ps,
                CASE q[i] = "name = ?" -> [row EXCEPT !.name = ps[k].v]
                  [] q[i] = "age = ?" -> [row EXCEPT !.age = ps[k].v]
                  [] q[i] = "breed = ?" ->
                        [row EXCEPT !.breed = IF ps[k].t = "text" THEN Some(ps[k].v) ELSE None])

ExecUpdate(q, ps, rows) ==
    LET list == SubSeq(q, 2, Len(q) - 1)
        n == (Len(list) + 1) \div 2
    IN IF /\ Len(q) >= 3
          /\ q[Len(q)] = " WHERE id = ? RETURNING *"
          /\ SetListOk(list)
          /\ Len(ps) = n + 1
          /\ \A j \in 1..n : Storable(list[2 * j - 1], ps[j])
       THEN LET hit == {r \in rows : IntEq(r.id, ps[n + 1])}
                new == {Assign(list, 1, 1, ps, r) : r \in hit}
            IN [ok |-> TRUE, returning |-> InRowidOrder(new), table |-> (rows \ hit) \cup new]
       ELSE Failed(rows)

\* Connection::prepare followed by query_map / query_row
Execute(q, ps, rows) ==
    CASE q = <<"INSERT INTO cats (name, age, breed) VALUES (?, ?, ?) RETURNING *">> ->
            ExecInsert(ps, rows)
      [] q = <<"DELETE FROM cats WHERE id = ? RETURNING *">> -> ExecDelete(ps, rows)
      [] q # <<>> /\ q[1] \in {"SELECT * FROM cats", "SELECT * FROM cats WHERE "} ->
            ExecSelect(q, ps, rows)
      [] q # <<>> /\ q[1] = "UPDATE cats SET " -> ExecUpdate(q, ps, rows)
      [] OTHER -> Failed(rows)

----------------------------------------------------------------------------
(* cmds.rs: the Printable implementations.                                 *)

Item(what, rows) == [what |-> what, rows |-> rows]

\* impl Printable for Cat
PrintCat(cat, how) ==
    CASE how = "display" -> <<Item("table", <<cat>>)>>
      [] how = "plain" -> <<Item("line", <<cat>>)>>
      [] how = "json" -> <<Item("json object", <<cat>>)>>

\* PrintOptionCat with print_plain printing the message for None as
\* print_display does
PrintOptionCatPlainMessage(opt, how) ==
    CASE how \in {"display", "plain"} ->
            IF IsSome(opt) THEN PrintCat(Unwrap(opt), how)
            ELSE <<Item("No such cat exists", <<>>)>>
      [] how = "json" ->
            IF IsSome(opt) THEN PrintCat(Unwrap(opt), how) ELSE <<Item("{}", <<>>)>>

\* impl Printable for Option<Cat>
PrintOptionCat(opt, how) ==
    CASE how = "display" ->
            IF IsSome(opt) THEN PrintCat(Unwrap(opt), how)
            ELSE <<Item("No such cat exists", <<>>)>>
      [] how = "plain" -> IF IsSome(opt) THEN PrintCat(Unwrap(opt), how) ELSE <<>>
      [] how = "json" ->
            IF IsSome(opt) THEN PrintCat(Unwrap(opt), how) ELSE <<Item("{}", <<>>)>>

\* impl Printable for Vec<Cat>
PrintVecCat(vec, how) ==
    CASE how = "display" ->
            IF vec = <<>> THEN PrintOptionCat(None, how) ELSE <<Item("table", vec)>>
      [] how = "plain" -> [i \in 1..Len(vec) |-> Item("line", <<vec[i]>>)]
      [] how = "json" -> <<Item("json array", vec)>>

\* the dynamic dispatch on `result` in main_
PrintResult(res, how) ==
    CASE res.type = "Cat" -> PrintCat(res.rows[1], how)
      [] res.type = "Option<Cat>" -> PrintOptionCat(res.rows, how)
      [] res.type = "Vec<Cat>" -> PrintVecCat(res.rows, how)

\* --json, else a table on a terminal, else plain text
Mode(json, tty) == IF json THEN "json" ELSE IF tty THEN "display" ELSE "plain"

----------------------------------------------------------------------------
(* Command lines of the model.                                             *)

Names == {<<"A", "b">>, <<"b">>}
Ages == {1, 2}
Breeds == {<<"T">>}
Ids == 1..(MaxId + 1)
NewNames == {<<"b">>}
NewAges == {2}

NamePatterns == {<<"a">>, <<"B">>}
BreedPatterns == {<<"t">>}
AgeTerms == {<<"2">>, <<"1", "-", "1">>, <<"2", "-", "1">>, <<"1", "-", "x">>}

OptLen(o) == IF IsSome(o) THEN Len(Unwrap(o)) ELSE 0

AddArgv == [kind : {"add"}, name : Names, age : Ages, breed : Opt(Breeds)]
DeleteArgv == [kind : {"delete"}, id : Ids]
GetArgv == [kind : {"get"}, id : SeqsUpTo(Ids, MaxTerms)]
UpdateArgv ==
    [kind : {"update"}, id : Ids, name : Opt(NewNames), age : Opt(NewAges), breed : Opt(Breeds)]
FindArgv ==
    {a \in [kind : {"find"}, name : Opt(NonEmptySeqsUpTo(NamePatterns, MaxTerms)),
            age : Opt(NonEmptySeqsUpTo(AgeTerms, MaxTerms)),
            breed : Opt(NonEmptySeqsUpTo(BreedPatterns, MaxTerms)),
            no_breed : BOOLEAN, fuzzy : BOOLEAN] :
        OptLen(a.name) + OptLen(a.age) + OptLen(a.breed) <= MaxTerms}

\* Args::from_args for find: every age term goes through Age::from_str, and
\* --no-breed conflicts with --breed.  None is a usage error.
FindFromArgs(a) ==
    IF a.no_breed /\ IsSome(a.breed) THEN None
    ELSE IF IsSome(a.age) /\ \E i \in 1..Len(Unwrap(a.age)) : AgeFromStr(Unwrap(a.age)[i]) = None
         THEN None
         ELSE Some([a EXCEPT !.age =
                      IF IsSome(a.age)
                      THEN Some([i \in 1..Len(Unwrap(a.age)) |-> Unwrap(AgeFromStr(Unwrap(a.age)[i]))])
                      ELSE None])

FindCmds == {Unwrap(FindFromArgs(a)) : a \in {b \in FindArgv : IsSome(FindFromArgs(b))}}
Commands == AddArgv \cup DeleteArgv \cup GetArgv \cup UpdateArgv \cup FindCmds

----------------------------------------------------------------------------
(* main.rs: one invocation of the process.                                 *)

NoCmd == [kind |-> "none"]
NoResult == [type |-> "none", rows |-> <<>>]
NoMode == "none"
Running == None

Init ==
    /\ cats = {}
    /\ schema = FALSE
    /\ issued = {}
    /\ pc = "start"
    /\ log = <<>>
    /\ cmd = NoCmd
    /\ stmt = <<>>
    /\ params = <<>>
    /\ result = NoResult
    /\ mode = NoMode
    /\ stdout = <<>>
    /\ exitCode = Running

\* Connection::open(PATH)
Open ==
    /\ pc = "start"
    /\ pc' = "opened"
    /\ log' = Append(log, "open")
    /\ UNCHANGED <<cats, schema, issued, cmd, stmt, params, result, mode, stdout, exitCode>>

\* migrations::migration1: CREATE TABLE IF NOT EXISTS cats
Migration1 ==
    /\ pc = "opened"
    /\ pc' = "migrated"
    /\ schema' = TRUE
    /\ log' = Append(log, "create table")
    /\ UNCHANGED <<cats, issued, cmd, stmt, params, result, mode, stdout, exitCode>>

\* Args::from_args() rejects the command line: the usage error is printed to
\* stderr and the process exits with status 1
UsageError ==
    /\ pc = "migrated"
    /\ \E a \in FindArgv : FindFromArgs(a) = None
    /\ pc' = "exited"
    /\ log' = Append(log, "usage error")
    /\ exitCode' = Some(1)
    /\ UNCHANGED <<cats, schema, issued, cmd, stmt, params, result, mode, stdout>>

\* a command arm of main_, from the parsed command to the exit: the query is
\* built and run; an Err goes to main, which exits with -1 (status 255);
\* otherwise the result is printed, as JSON under --json (json), else as a
\* table when stdout is a terminal (tty), else as plain text
RunCommand(c, type) ==
    LET q == QueryText(c)
        ps == QueryParams(c)
        r == Execute(q, ps, cats)
        res == [type |-> type,
                rows |-> IF type = "Option<Cat>" /\ r.returning # <<>>
                         THEN Some(r.returning[1]) ELSE r.returning]
    IN /\ pc' = "exited"
       /\ cmd' = c
       /\ stmt' = q
       /\ params' = ps
       /\ IF r.ok
          THEN /\ cats' = r.table
               /\ log' = Append(log, c.kind)
               /\ result' = res
               /\ \E json \in BOOLEAN, tty \in BOOLEAN :
                      /\ mode' = Mode(json, tty)
                      /\ stdout' = PrintResult(res, Mode(json, tty))
               /\ exitCode' = Some(0)
               /\ issued' = IF c.kind = "add" THEN issued \cup {r.returning[1].id} ELSE issued
          ELSE /\ log' = Append(log, "prepare error")
               /\ exitCode' = Some(255)
               /\ UNCHANGED <<cats, issued, result, mode, stdout>>
       /\ UNCHANGED schema

Add ==
    /\ pc = "migrated"
    /\ NewRowid(cats) <= MaxId
    /\ \E a \in AddArgv : RunCommand(a, "Cat")

Delete ==
    /\ pc = "migrated"
    /\ \E a \in DeleteArgv : RunCommand(a, "Option<Cat>")

Find ==
    /\ pc = "migrated"
    /\ \E a \in FindArgv :
            LET parsed == FindFromArgs(a)
            IN IsSome(parsed) /\ RunCommand(Unwrap(parsed), "Vec<Cat>")

Get ==
    /\ pc = "migrated"
    /\ \E a \in GetArgv : RunCommand(a, "Vec<Cat>")

Update ==
    /\ pc = "migrated"
    /\ \E a \in UpdateArgv : RunCommand(a, "Option<Cat>")

\* the tool is started again on the same database file
Invoke ==
    /\ pc = "exited"
    /\ pc' = "start"
    /\ log' = <<>>
    /\ cmd' = NoCmd
    /\ stmt' = <<>>
    /\ params' = <<>>
    /\ result' = NoResult
    /\ mode' = NoMode
    /\ stdout' = <<>>
    /\ exitCode' = Running
    /\ UNCHANGED <<cats, schema, issued>>

\* the commands on stored records
Next == Open \/ Migration1 \/ Add \/ Delete \/ Get \/ Update \/ Invoke

Spec == Init /\ [][Next]_vars

\* searching a store filled by add
NextFind == Open \/ Migration1 \/ UsageError \/ Add \/ Find \/ Invoke

SpecFind == Init /\ [][NextFind]_vars

----------------------------------------------------------------------------
(* Query construction alone, as a function of the parsed command.          *)

\* the same fields present with the same number of values, the same variant
\* of every age term, the same flags
SameShape(c, d) ==
    /\ c.kind = d.kind
    /\ CASE c.kind = "find" ->
              /\ OptLen(c.name) = OptLen(d.name) /\ IsSome(c.name) = IsSome(d.name)
              /\ OptLen(c.breed) = OptLen(d.breed) /\ IsSome(c.breed) = IsSome(d.breed)
              /\ OptLen(c.age) = OptLen(d.age) /\ IsSome(c.age) = IsSome(d.age)
              /\ \A i \in 1..OptLen(c.age) : Unwrap(c.age)[i].tag = Unwrap(d.age)[i].tag
              /\ c.no_breed = d.no_breed
              /\ c.fuzzy = d.fuzzy
         [] c.kind = "update" ->
              /\ IsSome(c.name) = IsSome(d.name)
              /\ IsSome(c.age) = IsSome(d.age)
              /\ IsSome(c.breed) = IsSome(d.breed)
         [] c.kind = "get" -> Len(c.id) = Len(d.id)
         [] c.kind = "add" -> IsSome(c.breed) = IsSome(d.breed)
         [] c.kind = "delete" -> TRUE
         [] OTHER -> FALSE

InitBuild ==
    /\ cats = {}
    /\ schema = FALSE
    /\ issued = {}
    /\ pc = "build"
    /\ log = <<>>
    /\ cmd \in Commands
    /\ stmt = <<>>
    /\ params = <<>>
    /\ result = NoResult
    /\ mode = NoMode
    /\ stdout = <<>>
    /\ exitCode = Running

\* the query text and the parameter list of the command
Build ==
    /\ pc = "build"
    /\ pc' = "built"
    /\ stmt' = QueryText(cmd)
    /\ params' = QueryParams(cmd)
    /\ UNCHANGED <<cats, schema, issued, log, cmd, result, mode, stdout, exitCode>>

NextBuild == Build

SpecBuild == InitBuild /\ [][NextBuild]_vars

----------------------------------------------------------------------------
(* Properties.                                                             *)

Exited == pc = "exited"
Succeeded == exitCode = Some(0)
\* the step in which a command arm of main_ runs
Runs(kind) == pc = "migrated" /\ pc' = "exited" /\ cmd'.kind = kind
Stored(id) == \E r \in cats : r.id = id
RowOf(id) == CHOOSE r \in cats : r.id = id
OnlyAgeFilter(c) == c.kind = "find" /\ IsSome(c.age) /\ c.name = None /\ c.breed = None /\ ~c.no_breed
OnlyNameFilter(c) == c.kind = "find" /\ IsSome(c.name) /\ c.age = None /\ c.breed = None /\ ~c.no_breed
NoFields(c) == c.name = None /\ c.age = None /\ c.breed = None
Absent == Exited /\ Succeeded /\ result.type = "Option<Cat>" /\ result.rows = None
NoSuchCat == <<Item("No such cat exists", <<>>)>>
EmptyObject == <<Item("{}", <<>>)>>

\* C1: the k-th parameter of a find query is a value of the field whose clause
\* holds the k-th placeholder of the query text, and there are as many
\* parameters as placeholders.
C1_ParametersFollowPlaceholders ==
    (pc = "built" /\ cmd.kind = "find") =>
        LET cols == PlaceholderColumns(stmt, "")
        IN /\ Len(params) = Len(cols)
           /\ \A k \in 1..Len(cols) : params[k].col = cols[k]

\* C2: update of a stored id with no field given succeeds, changes no row and
\* returns the stored record.
C2_UpdateWithoutFields ==
    [][(Runs("update") /\ NoFields(cmd') /\ Stored(cmd'.id)) =>
            /\ exitCode' = Some(0)
            /\ cats' = cats
            /\ result'.type = "Option<Cat>"
            /\ result'.rows = Some(RowOf(cmd'.id))]_vars

\* C3: the query text of a command is the query text of every command of the
\* same shape, whatever the values.
C3_TextIndependentOfValues ==
    pc = "built" => \A d \in Commands : SameShape(cmd, d) => QueryText(d) = stmt

\* C3 witness: a find query was built for name patterns and an age term, and a
\* command of the same shape with other values has another parameter list.
C3_Witness ==
    /\ pc = "built"
    /\ cmd.kind = "find" /\ IsSome(cmd.name) /\ IsSome(cmd.age) /\ ~cmd.fuzzy
    /\ \E d \in Commands :
            SameShape(cmd, d) /\ d.name # cmd.name /\ d.age # cmd.age /\ QueryParams(d) # params

\* C4: stored ids are distinct, and add never returns an id that an earlier
\* add returned.
C4_IdsNeverReused ==
    [][/\ \A r1, r2 \in cats' : r1.id = r2.id => r1 = r2
       /\ (Runs("add") /\ exitCode' = Some(0)) => result'.rows[1].id \notin issued]_vars

\* C5: a command line that fails to parse ends the process with a non-zero
\* status, and neither the open of the connection nor the schema statement
\* comes before the failure.
C5_NoStorageAccessBeforeUsageError ==
    \A i \in 1..Len(log) :
        log[i] = "usage error" =>
            /\ Exited => ~Succeeded
            /\ \A j \in 1..(i - 1) : log[j] \notin {"open", "create table"}

EqualsIgnoreCase(p, s) == Len(p) = Len(s) /\ \A i \in 1..Len(p) : Lower(p[i]) = Lower(s[i])
ContainsIgnoreCase(p, s) ==
    \E i \in 0..(Len(s) - Len(p)) : \A j \in 1..Len(p) : Lower(p[j]) = Lower(s[i + j])

\* C6: find with one name pattern p.  Exact mode returns every record whose
\* name contains p, letter case aside; fuzzy mode succeeds and returns exactly
\* the records whose name is p, letter case aside.
C6_NameSearch ==
    (Exited /\ OnlyNameFilter(cmd) /\ Len(Unwrap(cmd.name)) = 1) =>
        LET p == Unwrap(cmd.name)[1]
        IN IF cmd.fuzzy
           THEN /\ Succeeded
                /\ \A r \in cats : r \in Elems(result.rows) <=> EqualsIgnoreCase(p, r.name)
           ELSE \A r \in cats : ContainsIgnoreCase(p, r.name) => r \in Elems(result.rows)

Satisfies(age, term) ==
    IF term.tag = "Concrete" THEN age = term.start
    ELSE term.start <= age /\ age <= term.end

\* C7: find with only an age filter succeeds and returns exactly the records
\* whose age satisfies one of the terms: Concrete(n) is age = n, Range(lo, hi)
\* is lo <= age <= hi, so that a range with lo > hi is satisfied by no age.
C7_AgeFilter ==
    (Exited /\ OnlyAgeFilter(cmd)) =>
        /\ Succeeded
        /\ Elems(result.rows) =
              {r \in cats : \E i \in 1..Len(Unwrap(cmd.age)) : Satisfies(r.age, Unwrap(cmd.age)[i])}

\* C7 witness: a find with a range whose lower end exceeds its upper end next
\* to another term returned some records of the table and not others.
C7_Witness ==
    /\ Exited /\ OnlyAgeFilter(cmd) /\ Succeeded
    /\ \E i \in 1..Len(Unwrap(cmd.age)) :
            Unwrap(cmd.age)[i].tag = "Range" /\ Unwrap(cmd.age)[i].start > Unwrap(cmd.age)[i].end
    /\ result.rows # <<>>
    /\ Len(result.rows) < Cardinality(cats)

\* C8: get succeeds and returns exactly the stored records whose id is in the
\* list; update and delete of an id that is not stored succeed, return the
\* absent result and change no row.
C8_NotFoundIsNoError ==
    [][/\ Runs("get") =>
            /\ exitCode' = Some(0)
            /\ Elems(result'.rows) = {r \in cats : r.id \in Elems(cmd'.id)}
       /\ ((Runs("update") \/ Runs("delete")) /\ ~Stored(cmd'.id)) =>
            /\ exitCode' = Some(0)
            /\ result'.type = "Option<Cat>"
            /\ result'.rows = None
            /\ cats' = cats]_vars

Updated(row, c) ==
    [id |-> row.id,
     name |-> IF IsSome(c.name) THEN Unwrap(c.name) ELSE row.name,
     age |-> IF IsSome(c.age) THEN Unwrap(c.age) ELSE row.age,
     breed |-> IF IsSome(c.breed) THEN c.breed ELSE row.breed]

\* C9: update of a stored id with some field given succeeds, sets exactly the
\* given fields of that record, leaves its id, its other fields and every
\* other record as they were, and returns the record as updated.
C9_UpdateSetsGivenFields ==
    [][(Runs("update") /\ ~NoFields(cmd') /\ Stored(cmd'.id)) =>
            LET old == RowOf(cmd'.id)
                new == Updated(old, cmd')
            IN /\ exitCode' = Some(0)
               /\ cats' = (cats \ {old}) \cup {new}
               /\ result'.type = "Option<Cat>"
               /\ result'.rows = Some(new)]_vars

\* C9 witness: an update that gave a name and a breed but no age returned a
\* record with the new name and breed and an age no update sets, next to
\* another record.
C9_Witness ==
    /\ Exited /\ Succeeded /\ cmd.kind = "update"
    /\ IsSome(cmd.name) /\ IsSome(cmd.breed) /\ cmd.age = None
    /\ IsSome(result.rows)
    /\ Unwrap(result.rows).name = Unwrap(cmd.name)
    /\ Unwrap(result.rows).breed = cmd.breed
    /\ Unwrap(result.rows).age \notin NewAges
    /\ Cardinality(cats) = 2

\* C10 as stated: an absent record is printed as the "no such record" message
\* in table mode and in plain-text mode, and as an empty object in JSON mode.
C10_AbsentPrintedAsMessage ==
    Absent => IF mode = "json" THEN stdout = EmptyObject ELSE stdout = NoSuchCat

\* C10 amended: an absent record is printed as the "no such record" message in
\* table mode, as nothing in plain-text mode, and as an empty object in JSON
\* mode.
C10_AbsentPrinted ==
    Absent =>
        CASE mode = "display" -> stdout = NoSuchCat
          [] mode = "plain" -> stdout = <<>>
          [] mode = "json" -> stdout = EmptyObject
          [] OTHER -> FALSE

\* C10 witness: an update or delete of an id that is not stored printed in
\* plain-text mode.
C10_Witness == Absent /\ mode = "plain" /\ cmd.kind \in {"update", "delete"}

====
